---- MODULE Spec2Model ----
\* A model of the runtime value and extension layer of the wirefilter engine:
\*   engine/src/lhs_types/bytes.rs   the Bytes byte string and its serde impls
\*   engine/src/searcher.rs          the substring search strategies
\*   engine/src/list_matcher.rs      list definitions and list matchers
EXTENDS Integers, Sequences, FiniteSets, TLC

\* ------------------------------------------------------------------ bounds

\* Longest byte string, needle, haystack and wire sequence explored.
MaxLen == 3

\* Byte values of the strings the Bytes operations run on.
OpBytes == {65, 195}

SeqsUpTo(S, n) == UNION {[1..k -> S] : k \in 0..n}

VARIABLES
    x, y,        \* two Bytes values
    last,        \* the last Bytes operation that ran, and what it did
    panicked,    \* a panic unwound the program
    wire,        \* the serialized form in flight
    de,          \* the outcome of the last Bytes deserialization
    searcher,    \* the search strategy a compiled predicate owns
    found,       \* the outcome of the last Compare::compare
    m1, m2,      \* two boxed list matchers (Box<dyn ListMatcher>)
    query,       \* the last match_value call and its result
    lwire,       \* the serialized form of a list matcher, in flight
    lres         \* the outcome of the last deserialize_matcher

vars == <<x, y, last, panicked, wire, de, searcher, found, m1, m2, query, lwire, lres>>

bytesVars == <<x, y, last>>
serdeVars == <<wire, de>>
searchVars == <<searcher, found>>
listVars == <<m1, m2, query, lwire, lres>>

\* ------------------------------------------------------------- Bytes value

\* enum Bytes<'a> { Borrowed(&'a [u8]), Owned(Box<[u8]>) }.  A &[u8] is a view
\* (pointer and length): the bytes beyond its length are not part of it.
Borrowed(s) == [kind |-> "Borrowed", data |-> s]
Owned(s) == [kind |-> "Owned", data |-> s]

BytesValues(S, n) == {Borrowed(s) : s \in SeqsUpTo(S, n)} \cup {Owned(s) : s \in SeqsUpTo(S, n)}

\* impl Deref for Bytes: the bytes of either representation.
Deref(b) ==
    CASE b.kind = "Borrowed" -> b.data
      [] b.kind = "Owned" -> b.data

\* Box::from(&[u8]) and Box<[u8]>::clone: a fresh buffer holding a copy.
BoxFrom(s) == [i \in 1..Len(s) |-> s[i]]

\* Bytes::to_owned
to_owned(b) ==
    CASE b.kind = "Borrowed" -> Owned(BoxFrom(b.data))
      [] b.kind = "Owned" -> Owned(BoxFrom(b.data))

\* A to_mut that never promotes.
to_mut_NoPromote(b) == b

\* Bytes::to_mut: the value after the call.
to_mut(b) ==
    IF b.kind = "Borrowed" THEN Owned(BoxFrom(b.data)) ELSE b

\* The buffer copies Bytes::to_mut performs (Box::from on the borrowed arm only).
to_mut_copies(b) ==
    IF b.kind = "Borrowed" THEN 1 ELSE 0

\* &slice[..len] panics when len exceeds the slice's length.
SliceTo(s, len) == SubSeq(s, 1, len)
SliceToPanics(s, len) == len > Len(s)

\* Vec::truncate: no effect when len is not below the vector's length.
VecTruncate(v, len) == IF len > Len(v) THEN v ELSE SubSeq(v, 1, len)

\* A truncate whose owned arm leaves the buffer as it is.
truncate_OwnedKept(b, len) ==
    CASE b.kind = "Borrowed" -> Borrowed(SliceTo(b.data, len))
      [] b.kind = "Owned" -> b

\* Bytes::truncate: the value after a call that returns.
truncate(b, len) ==
    CASE b.kind = "Borrowed" -> Borrowed(SliceTo(b.data, len))
      [] b.kind = "Owned" -> Owned(VecTruncate(b.data, len))

\* Bytes::truncate panics on the borrowed arm only.
truncate_panics(b, len) ==
    CASE b.kind = "Borrowed" -> SliceToPanics(b.data, len)
      [] b.kind = "Owned" -> FALSE

\* Box::from(Vec) moves the items to a right-sized buffer when the vector has
\* excess capacity; whether that moves the bytes is the allocator's choice.
truncate_copies(b, len) ==
    CASE b.kind = "Borrowed" -> {0}
      [] b.kind = "Owned" -> IF len < Len(b.data) THEN {0, 1} ELSE {0}

\* An equality that also compares the representation, as a derived one would.
BytesEq_Derived(a, b) == a.kind = b.kind /\ a.data = b.data

\* impl PartialEq for Bytes: **self == **other
BytesEq(a, b) == Deref(a) = Deref(b)

\* impl Hash for Bytes: what self.deref().hash(h) feeds the hasher, the length
\* prefix of a slice and then its bytes.
HashFeed(b) == <<Len(Deref(b))>> \o Deref(b)

\* ------------------------------------------------------- Bytes operations

Slots == {"x", "y"}
Get(t) == IF t = "x" THEN x ELSE y
Put(t, v) == IF t = "x" THEN x' = v /\ y' = y ELSE y' = v /\ x' = x

NoOp == [op |-> "new", target |-> "x", n |-> 0, len0 |-> 0, copies |-> 0]

\* x.to_mut()
ToMut(t) ==
    /\ ~panicked
    /\ Put(t, to_mut(Get(t)))
    /\ last' = [op |-> "to_mut", target |-> t, n |-> 0, len0 |-> Len(Deref(Get(t))),
                copies |-> to_mut_copies(Get(t))]
    /\ UNCHANGED <<panicked, serdeVars, searchVars, listVars>>

\* let d = s.to_owned()
ToOwned(s, d) ==
    /\ ~panicked
    /\ s # d
    /\ Put(d, to_owned(Get(s)))
    /\ last' = [op |-> "to_owned", target |-> s, n |-> 0, len0 |-> Len(Deref(Get(s))),
                copies |-> 1]
    /\ UNCHANGED <<panicked, serdeVars, searchVars, listVars>>

\* x.truncate(len)
Truncate(t, len) ==
    /\ ~panicked
    /\ IF truncate_panics(Get(t), len)
       THEN /\ panicked' = TRUE
            /\ UNCHANGED <<x, y>>
            /\ last' = [op |-> "truncate", target |-> t, n |-> len,
                        len0 |-> Len(Deref(Get(t))), copies |-> 0]
       ELSE /\ panicked' = FALSE
            /\ Put(t, truncate(Get(t), len))
            /\ \E c \in truncate_copies(Get(t), len) :
                  last' = [op |-> "truncate", target |-> t, n |-> len,
                           len0 |-> Len(Deref(Get(t))), copies |-> c]
    /\ UNCHANGED <<serdeVars, searchVars, listVars>>

\* ------------------------------------------------------------ UTF-8 text

\* Bytes of the values that are serialized: "A", the two bytes of U+00E9, the
\* three bytes of U+2764 (bytes.rs tests), and 255, which no UTF-8 text holds.
TextBytes == {65, 195, 169, 226, 157, 164, 255}

\* The length of the UTF-8 sequence a lead byte starts, 0 for a byte that starts none.
Utf8Width(b) ==
    CASE b \in 0..127 -> 1
      [] b \in 194..223 -> 2
      [] b \in 224..239 -> 3
      [] b \in 240..244 -> 4
      [] OTHER -> 0

IsCont(b) == b \in 128..191

\* The range of the second byte of a sequence, which excludes overlong forms,
\* surrogates and code points above U+10FFFF.
SecondOk(lead, b) ==
    CASE lead = 224 -> b \in 160..191
      [] lead = 237 -> b \in 128..159
      [] lead = 240 -> b \in 144..191
      [] lead = 244 -> b \in 128..143
      [] OTHER -> IsCont(b)

Utf8CharAt(s, i) ==
    LET w == Utf8Width(s[i]) IN
    /\ w # 0
    /\ i + w - 1 <= Len(s)
    /\ w >= 2 => SecondOk(s[i], s[i + 1])
    /\ \A k \in 2..(w - 1) : IsCont(s[i + k])

RECURSIVE Utf8ValidFrom(_, _)
Utf8ValidFrom(s, i) ==
    IF i > Len(s) THEN TRUE
    ELSE Utf8CharAt(s, i) /\ Utf8ValidFrom(s, i + Utf8Width(s[i]))

\* std::str::from_utf8(bytes).is_ok()
Utf8Valid(s) == Utf8ValidFrom(s, 1)

\* The code point of the sequence that starts at s[i].
CodePointAt(s, i) ==
    LET w == Utf8Width(s[i]) IN
    CASE w = 1 -> s[i]
      [] w = 2 -> (s[i] - 192) * 64 + (s[i + 1] - 128)
      [] w = 3 -> (s[i] - 224) * 4096 + (s[i + 1] - 128) * 64 + (s[i + 2] - 128)
      [] w = 4 -> (s[i] - 240) * 262144 + (s[i + 1] - 128) * 4096
                     + (s[i + 2] - 128) * 64 + (s[i + 3] - 128)

RECURSIVE Utf8DecodeFrom(_, _)
Utf8DecodeFrom(s, i) ==
    IF i > Len(s) THEN <<>>
    ELSE <<CodePointAt(s, i)>> \o Utf8DecodeFrom(s, i + Utf8Width(s[i]))

\* The text (a sequence of code points) of a valid UTF-8 byte string.
Utf8Decode(s) == Utf8DecodeFrom(s, 1)

\* A decoding that replaces every byte that starts no valid sequence by U+FFFD.
RECURSIVE Utf8DecodeLossyFrom(_, _)
Utf8DecodeLossyFrom(s, i) ==
    IF i > Len(s) THEN <<>>
    ELSE IF Utf8CharAt(s, i)
         THEN <<CodePointAt(s, i)>> \o Utf8DecodeLossyFrom(s, i + Utf8Width(s[i]))
         ELSE <<65533>> \o Utf8DecodeLossyFrom(s, i + 1)

\* The UTF-8 bytes of one code point.
Utf8EncodeChar(c) ==
    CASE c < 128 -> <<c>>
      [] c \in 128..2047 -> <<192 + (c \div 64), 128 + (c % 64)>>
      [] c \in 2048..65535 -> <<224 + (c \div 4096), 128 + ((c \div 64) % 64), 128 + (c % 64)>>
      [] OTHER -> <<240 + (c \div 262144), 128 + ((c \div 4096) % 64),
                    128 + ((c \div 64) % 64), 128 + (c % 64)>>

RECURSIVE as_bytes(_)
\* str::as_bytes: the UTF-8 bytes of a text.
as_bytes(t) ==
    IF t = <<>> THEN <<>> ELSE Utf8EncodeChar(Head(t)) \o as_bytes(Tail(t))

\* ------------------------------------------------------- Bytes on the wire

\* What a serializer is handed, and what a deserializer hands the visitor:
\* a text, a byte sequence, a sequence of elements, or a value of another type.
StrTok(t) == [shape |-> "str", items |-> t]
BytesTok(b) == [shape |-> "bytes", items |-> b]
SeqTok(e) == [shape |-> "seq", items |-> e]
UnitTok == [shape |-> "unit", items |-> <<>>]

\* How a format writes serialize_bytes: as a byte sequence, or (a text format
\* such as JSON) as a sequence of integers.
Formats == {"bytes", "seq"}

\* A serializer that always writes a text, decoding lossily.
Serialize_Lossy(b, fmt) == StrTok(Utf8DecodeLossyFrom(Deref(b), 1))

\* impl Serialize for Bytes
Serialize(b, fmt) ==
    IF Utf8Valid(Deref(b))
    THEN StrTok(Utf8Decode(Deref(b)))
    ELSE IF fmt = "bytes" THEN BytesTok(Deref(b)) ELSE SeqTok(Deref(b))

DeOk(v) == [state |-> "ok", value |-> v]
DeErr == [state |-> "err", value |-> Borrowed(<<>>)]

\* <u8 as Deserialize>: an element that is an integer in 0..255.
IsU8(e) == e \in 0..255

\* A loop that stores each element `as u8`, wrapping, instead of failing.
RECURSIVE visit_seq_Wrapping(_, _)
visit_seq_Wrapping(elems, vec) ==
    IF elems = <<>> THEN DeOk(Owned(vec))
    ELSE visit_seq_Wrapping(Tail(elems), Append(vec, Head(elems) % 256))

\* BytesVisitor::visit_seq: push each next_element::<u8>()?, stop at the first error.
RECURSIVE visit_seq(_, _)
visit_seq(elems, vec) ==
    IF elems = <<>> THEN DeOk(Owned(vec))
    ELSE IF ~IsU8(Head(elems)) THEN DeErr
    ELSE visit_seq(Tail(elems), Append(vec, Head(elems)))

\* The visitor methods a deserializer may call for a token.
Paths(tok) ==
    CASE tok.shape = "str" -> {"visit_str", "visit_string", "visit_borrowed_str"}
      [] tok.shape = "bytes" -> {"visit_bytes", "visit_byte_buf", "visit_borrowed_bytes"}
      [] tok.shape = "seq" -> {"visit_seq"}
      [] OTHER -> {"invalid_type"}

\* BytesVisitor: the result of each method.
Visit(path, tok) ==
    CASE path = "visit_bytes" -> DeOk(Owned(BoxFrom(tok.items)))
      [] path = "visit_byte_buf" -> DeOk(Owned(tok.items))
      [] path = "visit_borrowed_bytes" -> DeOk(Borrowed(tok.items))
      [] path = "visit_str" -> DeOk(Owned(BoxFrom(as_bytes(tok.items))))
      [] path = "visit_string" -> DeOk(Owned(as_bytes(tok.items)))
      [] path = "visit_borrowed_str" -> DeOk(Borrowed(as_bytes(tok.items)))
      [] path = "visit_seq" -> visit_seq(tok.items, <<>>)
      [] OTHER -> DeErr

\* bytes.serialize(serializer)
SerializeBytes(fmt) ==
    /\ ~panicked
    /\ wire' = Serialize(x, fmt)
    /\ de' = [state |-> "none"]
    /\ UNCHANGED <<bytesVars, panicked, searchVars, listVars>>

\* Bytes::deserialize(deserializer): deserialize_bytes(BytesVisitor)
DeserializeBytes(path) ==
    /\ ~panicked
    /\ wire.shape # "none"
    /\ path \in Paths(wire)
    /\ de' = Visit(path, wire)
    /\ UNCHANGED <<bytesVars, panicked, wire, searchVars, listVars>>

\* Code points of the texts received: "A", U+00E9 and U+2764 (bytes.rs tests).
WireChars == {65, 233, 10084}
\* Bytes of the byte sequences received.
WireBytes == {65, 195, 255}
\* Elements of the sequences received: bytes, and integers that are no byte.
WireElems == {65, 255, 256, -1}

WireTokens ==
    {StrTok(t) : t \in SeqsUpTo(WireChars, MaxLen)}
    \cup {BytesTok(b) : b \in SeqsUpTo(WireBytes, MaxLen)}
    \cup {SeqTok(e) : e \in SeqsUpTo(WireElems, MaxLen)}
    \cup {UnitTok}

\* Input arrives from a peer.
Receive(tok) ==
    /\ ~panicked
    /\ wire' = tok
    /\ de' = [state |-> "none"]
    /\ UNCHANGED <<bytesVars, panicked, searchVars, listVars>>

\* ---------------------------------------------------------------- searcher

\* LhsValue: the byte-string variant, and one of the other variants.
LhsBytes(b) == [tag |-> "Bytes", bytes |-> b]
LhsInt == [tag |-> "Int", bytes |-> Borrowed(<<>>)]

\* Values that are compared and matched.
LhsValues == {LhsBytes(b) : b \in BytesValues(OpBytes, MaxLen)} \cup {LhsInt}

\* EmptySearcher, the strategy of the empty needle; MemmemSearcher, which owns a
\* Finder built from a needle; sliceslice's MemchrSearcher, which holds one byte.
EmptySearcher == [kind |-> "EmptySearcher", needle |-> <<>>]
MemmemSearcher(needle) == [kind |-> "MemmemSearcher", needle |-> needle]
MemchrSearcher(b) == [kind |-> "MemchrSearcher", needle |-> <<b>>]

None == -1

\* memchr::memmem::Finder::find: the index of the first occurrence, scanning forward.
RECURSIVE FinderFindFrom(_, _, _)
FinderFindFrom(needle, hay, i) ==
    IF i + Len(needle) > Len(hay) THEN None
    ELSE IF SubSeq(hay, i + 1, i + Len(needle)) = needle THEN i
    ELSE FinderFindFrom(needle, hay, i + 1)

\* memchr::memchr: the index of the first byte equal to b.
RECURSIVE memchr(_, _, _)
memchr(b, hay, i) ==
    IF i >= Len(hay) THEN None
    ELSE IF hay[i + 1] = b THEN i
    ELSE memchr(b, hay, i + 1)

\* sliceslice::MemchrSearcher::search_in
search_in(b, hay) ==
    IF hay = <<>> THEN FALSE ELSE memchr(b, hay, 0) # None

\* A search that only looks at the start of the haystack.
compare_PrefixOnly(s, value) ==
    CASE s.kind = "EmptySearcher" -> TRUE
      [] s.kind = "MemmemSearcher" ->
            /\ Len(s.needle) <= Len(Deref(value.bytes))
            /\ SubSeq(Deref(value.bytes), 1, Len(s.needle)) = s.needle
      [] s.kind = "MemchrSearcher" -> search_in(s.needle[1], Deref(value.bytes))

\* impl Compare for EmptySearcher, MemmemSearcher and MemchrSearcher: the result
\* of compare on a Bytes value.
compare(s, value) ==
    CASE s.kind = "EmptySearcher" -> TRUE
      [] s.kind = "MemmemSearcher" -> FinderFindFrom(s.needle, Deref(value.bytes), 0) # None
      [] s.kind = "MemchrSearcher" -> search_in(s.needle[1], Deref(value.bytes))

\* compare reaches unreachable!() on a value that is no Bytes (EmptySearcher
\* never looks at the value).
compare_panics(s, value) ==
    CASE s.kind = "EmptySearcher" -> FALSE
      [] OTHER -> value.tag # "Bytes"

Searchers ==
    {EmptySearcher}
    \cup {MemmemSearcher(n) : n \in SeqsUpTo(OpBytes, MaxLen)}
    \cup {MemchrSearcher(b) : b \in OpBytes}

\* A predicate is compiled: its strategy is built once from the needle.
NewSearcher(s) ==
    /\ ~panicked
    /\ searcher' = s
    /\ found' = [state |-> "none"]
    /\ UNCHANGED <<bytesVars, panicked, serdeVars, listVars>>

\* searcher.compare(value, ctx)
Compare(value) ==
    /\ ~panicked
    /\ searcher.kind # "none"
    /\ IF compare_panics(searcher, value)
       THEN /\ panicked' = TRUE
            /\ found' = [state |-> "panic", value |-> value, result |-> FALSE]
       ELSE /\ panicked' = FALSE
            /\ found' = [state |-> "done", value |-> value, result |-> compare(searcher, value)]
    /\ UNCHANGED <<bytesVars, serdeVars, searcher, listVars>>

\* ------------------------------------------------------------ list matcher

\* The two list definitions and the matcher type of each.
ListDefinitions == {"AlwaysList", "NeverList"}

\* Both matchers are structs without fields.
AlwaysListMatcher == [kind |-> "AlwaysListMatcher", fields |-> <<>>]
NeverListMatcher == [kind |-> "NeverListMatcher", fields |-> <<>>]

\* ListDefinition::new_matcher
new_matcher(def) ==
    CASE def = "AlwaysList" -> AlwaysListMatcher
      [] def = "NeverList" -> NeverListMatcher

\* The definition a matcher comes from.
DefinitionOf(m) ==
    CASE m.kind = "AlwaysListMatcher" -> "AlwaysList"
      [] m.kind = "NeverListMatcher" -> "NeverList"

\* Any::type_id of the boxed matcher, which downcast_ref compares.
TypeId(m) == m.kind

\* #[derive(PartialEq)]: field by field.
DerivedEq(a, b) == a.fields = b.fields

\* An equality that skips the downcast and compares the fields alone.
dyn_eq_NoDowncast(a, b) == DerivedEq(a, b)

\* DynPartialEq::dyn_eq, which impl PartialEq for dyn ListMatcher calls.
dyn_eq(a, b) ==
    IF TypeId(b) = TypeId(a) THEN DerivedEq(a, b) ELSE FALSE

\* A match_value that is true on NeverListMatcher.
match_value_NeverTrue(m, list_name, val) ==
    CASE m.kind = "AlwaysListMatcher" -> FALSE
      [] m.kind = "NeverListMatcher" -> TRUE

\* ListMatcher::match_value of AlwaysListMatcher and of NeverListMatcher
match_value(m, list_name, val) ==
    CASE m.kind = "AlwaysListMatcher" -> FALSE
      [] m.kind = "NeverListMatcher" -> FALSE

\* ListMatcher::clear of both matchers: an empty body.
clear(m) == m

\* #[derive(Clone)]
clone(m) == [kind |-> m.kind, fields |-> m.fields]

\* Type: the value types a list is declared for.
Types == {"Bytes", "Int"}

\* The serialized form of a matcher: a struct without fields is written as an
\* empty struct. forType is the value type the list was declared for when the
\* matcher was serialized; it travels beside the payload, not in it.
Payload(shape, ty) == [shape |-> shape, forType |-> ty]

\* erased_serde::Serialize of a matcher (#[derive(Serialize)]).
SerializeMatcherPayload(m, ty) == Payload("struct", ty)

\* Payloads that are no serialized matcher.
BadShapes == {"unit", "str", "int"}

\* #[derive(Deserialize)] of a struct without fields accepts a struct (a map)
\* or a sequence, and rejects every other type.
StructurallyValid(p) == p.shape \in {"struct", "seq"}

LOk(m) == [state |-> "ok", matcher |-> m]
LErr == [state |-> "err", matcher |-> [kind |-> "none"]]

\* A deserialize_matcher that falls back to a fresh matcher on an error.
deserialize_matcher_OrDefault(def, ty, p) == LOk(new_matcher(def))

\* ListDefinition::deserialize_matcher of AlwaysList and of NeverList
deserialize_matcher(def, ty, p) ==
    IF StructurallyValid(p) THEN LOk(new_matcher(def)) ELSE LErr

Matchers == {"m1", "m2"}
GetM(s) == IF s = "m1" THEN m1 ELSE m2
PutM(s, m) == IF s = "m1" THEN m1' = m /\ m2' = m2 ELSE m2' = m /\ m1' = m1

ListNames == {"blocked", "allowed"}
ListValues == {LhsBytes(Borrowed(<<>>)), LhsBytes(Owned(<<65>>)), LhsInt}

\* let m = definition.new_matcher()
NewMatcher(s, def) ==
    /\ ~panicked
    /\ PutM(s, new_matcher(def))
    /\ query' = [state |-> "new", slot |-> s, cleared |-> FALSE]
    /\ UNCHANGED <<bytesVars, panicked, serdeVars, searchVars, lwire, lres>>

\* let d = s.clone()
CloneMatcher(s, d) ==
    /\ ~panicked
    /\ s # d
    /\ GetM(s).kind # "none"
    /\ PutM(d, clone(GetM(s)))
    /\ query' = [state |-> "clone", slot |-> d, cleared |-> FALSE]
    /\ UNCHANGED <<bytesVars, panicked, serdeVars, searchVars, lwire, lres>>

\* m.clear()
Clear(s) ==
    /\ ~panicked
    /\ GetM(s).kind # "none"
    /\ PutM(s, clear(GetM(s)))
    /\ query' = [state |-> "clear", slot |-> s, cleared |-> TRUE]
    /\ UNCHANGED <<bytesVars, panicked, serdeVars, searchVars, lwire, lres>>

\* m.match_value(list_name, val)
MatchValue(s, list_name, val) ==
    /\ ~panicked
    /\ GetM(s).kind # "none"
    /\ query' = [state |-> "match_value", slot |-> s,
                 cleared |-> (query.state \in {"clear", "match_value"}
                              /\ query.slot = s /\ query.cleared),
                 list_name |-> list_name, val |-> val,
                 result |-> match_value(GetM(s), list_name, val)]
    /\ UNCHANGED <<bytesVars, panicked, serdeVars, searchVars, m1, m2, lwire, lres>>

\* m1 == m2
EqMatchers ==
    /\ ~panicked
    /\ m1.kind # "none"
    /\ m2.kind # "none"
    /\ query' = [state |-> "eq", slot |-> "m1", cleared |-> FALSE,
                 result |-> dyn_eq(m1, m2), flipped |-> dyn_eq(m2, m1)]
    /\ UNCHANGED <<bytesVars, panicked, serdeVars, searchVars, m1, m2, lwire, lres>>

\* The context is serialized: the matcher of a list declared for ty is written.
SerializeMatcher(s, ty) ==
    /\ ~panicked
    /\ GetM(s).kind # "none"
    /\ lwire' = SerializeMatcherPayload(GetM(s), ty)
    /\ lres' = [state |-> "none"]
    /\ UNCHANGED <<bytesVars, panicked, serdeVars, searchVars, m1, m2, query>>

\* A payload arrives that was written by something else.
ReceivePayload(shape, ty) ==
    /\ ~panicked
    /\ lwire' = Payload(shape, ty)
    /\ lres' = [state |-> "none"]
    /\ UNCHANGED <<bytesVars, panicked, serdeVars, searchVars, m1, m2, query>>

\* definition.deserialize_matcher(ty, deserializer): the caller stores the
\* matcher it is given and aborts on an error.
DeserializeMatcher(s, def, ty) ==
    /\ ~panicked
    /\ lwire.shape # "none"
    /\ LET r == deserialize_matcher(def, ty, lwire) IN
       /\ lres' = [state |-> r.state, matcher |-> r.matcher, def |-> def, ty |-> ty,
                   slot |-> s, before |-> GetM(s)]
       /\ IF r.state = "ok" THEN PutM(s, r.matcher) ELSE UNCHANGED <<m1, m2>>
    /\ query' = [state |-> "deserialize", slot |-> s, cleared |-> FALSE]
    /\ UNCHANGED <<bytesVars, panicked, serdeVars, searchVars, lwire>>

NoWire == [shape |-> "none"]
NoDe == [state |-> "none"]
NoSearcher == [kind |-> "none"]
NoFound == [state |-> "none"]
NoMatcher == [kind |-> "none"]
NoQuery == [state |-> "none"]
NoLres == [state |-> "none"]

RestInit ==
    /\ panicked = FALSE
    /\ wire = NoWire
    /\ de = NoDe
    /\ searcher = NoSearcher
    /\ found = NoFound
    /\ m1 = NoMatcher
    /\ m2 = NoMatcher
    /\ query = NoQuery
    /\ lwire = NoWire
    /\ lres = NoLres

\* Two values built by the From impls: From<&[u8]> borrows, From<Vec<u8>> owns.
Init ==
    /\ x \in BytesValues(OpBytes, MaxLen)
    /\ y \in BytesValues(OpBytes, MaxLen)
    /\ last = NoOp
    /\ RestInit

Next ==
    \/ \E t \in Slots : ToMut(t)
    \/ \E s \in Slots, d \in Slots : ToOwned(s, d)
    \/ \E t \in Slots, len \in 0..(MaxLen + 1) : Truncate(t, len)

Spec == Init /\ [][Next]_vars

\* One value, serialized and read back.
SerdeInit ==
    /\ x \in BytesValues(TextBytes, MaxLen)
    /\ y = Borrowed(<<>>)
    /\ last = NoOp
    /\ RestInit

SerdeNext ==
    \/ \E fmt \in Formats : SerializeBytes(fmt)
    \/ \E path \in Paths(wire) : DeserializeBytes(path)

SerdeSpec == SerdeInit /\ [][SerdeNext]_vars

\* Any input, read.
WireInit ==
    /\ x = Borrowed(<<>>)
    /\ y = Borrowed(<<>>)
    /\ last = NoOp
    /\ RestInit

WireNext ==
    \/ \E tok \in WireTokens : Receive(tok)
    \/ \E path \in Paths(wire) : DeserializeBytes(path)

WireSpec == WireInit /\ [][WireNext]_vars

\* One compiled predicate, evaluated against values.
SearchInit ==
    /\ x = Borrowed(<<>>)
    /\ y = Borrowed(<<>>)
    /\ last = NoOp
    /\ RestInit

SearchNext ==
    \/ \E s \in Searchers : NewSearcher(s)
    \/ \E value \in LhsValues : Compare(value)

SearchSpec == SearchInit /\ [][SearchNext]_vars

\* Two matchers of one execution context.
ListInit ==
    /\ x = Borrowed(<<>>)
    /\ y = Borrowed(<<>>)
    /\ last = NoOp
    /\ RestInit

ListNext ==
    \/ \E s \in Matchers, def \in ListDefinitions : NewMatcher(s, def)
    \/ \E s \in Matchers, d \in Matchers : CloneMatcher(s, d)
    \/ \E s \in Matchers : Clear(s)
    \/ \E s \in Matchers, n \in ListNames, v \in ListValues : MatchValue(s, n, v)
    \/ EqMatchers
    \/ \E s \in Matchers, ty \in Types : SerializeMatcher(s, ty)
    \/ \E shape \in BadShapes \cup {"seq"}, ty \in Types : ReceivePayload(shape, ty)
    \/ \E s \in Matchers, def \in ListDefinitions, ty \in Types : DeserializeMatcher(s, def, ty)

ListSpec == ListInit /\ [][ListNext]_vars

\* ------------------------------------------------------------------ claims

New(t) == IF t = "x" THEN x' ELSE y'

\* Two byte strings hold the same bytes: the same length, and byte for byte.
SameContent(a, b) ==
    /\ Len(a.data) = Len(b.data)
    /\ \A i \in 1..Len(a.data) : a.data[i] = b.data[i]

\* C1: whatever their representations and whatever to_mut, to_owned and
\* truncate did to them, two Bytes values are equal exactly when they hold the
\* same bytes, and two equal values feed the hasher the same bytes.
C1_EqualIffSameBytes ==
    \A a \in {x, y}, b \in {x, y} :
        /\ BytesEq(a, b) <=> SameContent(a, b)
        /\ BytesEq(a, b) => HashFeed(a) = HashFeed(b)

\* A borrowed and an owned value, equal after a truncation shortened one.
C1_Witness ==
    /\ x.kind = "Borrowed"
    /\ y.kind = "Owned"
    /\ BytesEq(x, y)
    /\ Len(Deref(x)) = 2
    /\ last.op = "truncate"
    /\ last.n < last.len0

\* C2: a value that is serialized and read back through BytesVisitor, by any
\* method the deserializer may call, is read as a value equal to the original,
\* valid UTF-8 or not, borrowed or owned.
C2_RoundTrip ==
    de.state # "none" =>
        /\ de.state = "ok"
        /\ BytesEq(de.value, x)
        /\ SameContent(de.value, x)

\* A borrowed value that is no UTF-8 text (a character, then a stray byte) was
\* written as a sequence and read back.
C2_Witness ==
    /\ de.state = "ok"
    /\ x = Borrowed(<<195, 169, 255>>)
    /\ ~Utf8Valid(Deref(x))
    /\ wire.shape = "seq"

\* The needle p occurs in h as a contiguous subsequence.
Occurs(p, h) ==
    \E i \in 0..(Len(h) - Len(p)) : \A j \in 1..Len(p) : h[i + j] = p[j]

\* C3: compare on a Bytes value is true exactly when the needle of the strategy
\* occurs in the value; with the empty needle it is true, for EmptySearcher and
\* for a MemmemSearcher alike; with a needle of one byte, which is what a
\* MemchrSearcher holds, MemmemSearcher and MemchrSearcher give the same result.
C3_StrategiesAgree ==
    (found.state = "done" /\ found.value.tag = "Bytes") =>
        LET h == Deref(found.value.bytes)
            p == searcher.needle
        IN  /\ found.result = Occurs(p, h)
            /\ p = <<>> =>
                  /\ found.result = TRUE
                  /\ compare(EmptySearcher, found.value) = TRUE
                  /\ compare(MemmemSearcher(p), found.value) = TRUE
            /\ Len(p) = 1 =>
                  compare(MemmemSearcher(p), found.value)
                      = compare(MemchrSearcher(p[1]), found.value)

\* A needle of two bytes was found in an owned haystack, not at its start.
C3_Witness ==
    /\ found.state = "done"
    /\ found.value.tag = "Bytes"
    /\ found.value.bytes.kind = "Owned"
    /\ searcher.kind = "MemmemSearcher"
    /\ Len(searcher.needle) = 2
    /\ found.result = TRUE
    /\ SubSeq(Deref(found.value.bytes), 1, 2) # searcher.needle

\* C4: two boxed matchers are equal exactly when they are of the same concrete
\* type and their fields are equal: Always == Always, Always # Never in both
\* orders, and a comparison across types gives false.
C4_MatcherEquality ==
    /\ dyn_eq(AlwaysListMatcher, AlwaysListMatcher) = TRUE
    /\ dyn_eq(AlwaysListMatcher, NeverListMatcher) = FALSE
    /\ dyn_eq(NeverListMatcher, AlwaysListMatcher) = FALSE
    /\ query.state = "eq" =>
          /\ query.result = (m1.kind = m2.kind /\ m1.fields = m2.fields)
          /\ query.flipped = query.result
    /\ \A a \in {m1, m2}, b \in {m1, m2} :
          (a.kind # "none" /\ b.kind # "none") =>
              (dyn_eq(a, b) <=> (a.kind = b.kind /\ a.fields = b.fields))

\* An AlwaysListMatcher was compared with a NeverListMatcher.
C4_Witness ==
    /\ query.state = "eq"
    /\ query.result = FALSE
    /\ m1.kind = "AlwaysListMatcher"
    /\ m2.kind = "NeverListMatcher"

\* C5: truncate(n) with n within the length leaves the first n bytes of the
\* value, in the representation the value had, and does not panic.
C5_TruncateKeepsPrefix ==
    [][\A t \in Slots :
          (last'.op = "truncate" /\ last'.target = t /\ last'.n <= Len(Deref(Get(t)))) =>
              /\ panicked' = FALSE
              /\ New(t).kind = Get(t).kind
              /\ Len(Deref(New(t))) = last'.n
              /\ \A i \in 1..last'.n : Deref(New(t))[i] = Deref(Get(t))[i]]_vars

\* A borrowed value was shortened to a shorter, non-empty view and is still borrowed.
C5_Witness ==
    /\ last.op = "truncate"
    /\ last.target = "x"
    /\ x.kind = "Borrowed"
    /\ last.n \in 1..(last.len0 - 1)
    /\ Len(Deref(x)) = last.n
    /\ ~panicked

\* C6: to_mut leaves the value owned, with the bytes it had; it copies once when
\* the value was borrowed and not at all when it was owned, which it then leaves
\* as it is. No operation takes an owned value back to borrowed.
C6_ToMutOwns ==
    [][\A t \in Slots :
          /\ (last'.op = "to_mut" /\ last'.target = t) =>
                /\ New(t).kind = "Owned"
                /\ SameContent(New(t), Get(t))
                /\ Get(t).kind = "Borrowed" => last'.copies = 1
                /\ Get(t).kind = "Owned" => (last'.copies = 0 /\ New(t) = Get(t))
          /\ Get(t).kind = "Owned" => New(t).kind = "Owned"]_vars

\* to_mut ran on a value that was owned already, and copied nothing.
C6_Witness ==
    /\ last.op = "to_mut"
    /\ last.target = "x"
    /\ last.copies = 0
    /\ x.kind = "Owned"
    /\ Len(Deref(x)) > 0

C8_ValidatesExpectedType ==
    (query.state = "deserialize" /\ lres.state # "none") =>
        /\ (~StructurallyValid(lwire) \/ lwire.forType # lres.ty) => lres.state = "err"
        /\ lres.state = "ok" => lres.matcher = new_matcher(lres.def)
        /\ lres.state = "err" => GetM(lres.slot) = lres.before

\* C8, as amended: deserialize_matcher fails exactly when the payload is
\* structurally invalid, whatever expected_type is; otherwise it gives a matcher
\* of the definition's kind; on a failure no matcher is given or stored.
C8_FailsIffStructurallyInvalid ==
    (query.state = "deserialize" /\ lres.state # "none") =>
        /\ (lres.state = "err") <=> ~StructurallyValid(lwire)
        /\ lres.state = "ok" =>
              /\ lres.matcher = new_matcher(lres.def)
              /\ GetM(lres.slot) = lres.matcher
        /\ lres.state = "err" =>
              /\ lres.matcher.kind = "none"
              /\ GetM(lres.slot) = lres.before
        /\ \A t \in Types : deserialize_matcher(lres.def, t, lwire).state = lres.state

\* A payload written for a list of one type was accepted for another type.
C8_Witness ==
    /\ query.state = "deserialize"
    /\ lres.state = "ok"
    /\ lwire.forType # lres.ty
    /\ lres.def = "AlwaysList"

\* C9: match_value is true on an AlwaysListMatcher and false on a
\* NeverListMatcher, whatever the list name and the value.
C9_AlwaysMatchesNeverDoesNot ==
    query.state = "match_value" =>
        /\ GetM(query.slot).kind = "AlwaysListMatcher" => query.result = TRUE
        /\ GetM(query.slot).kind = "NeverListMatcher" => query.result = FALSE

\* C10: a text is read as its UTF-8 bytes (the valid UTF-8 that decodes to it),
\* a byte sequence as those bytes, a sequence of integers that are all bytes as
\* those bytes, equal to what the byte sequence itself is read as; a sequence
\* with an element that is no byte is an error.
C10_WireShapes ==
    de.state # "none" =>
        /\ wire.shape = "str" =>
              /\ de.state = "ok"
              /\ Utf8Valid(Deref(de.value))
              /\ Utf8Decode(Deref(de.value)) = wire.items
        /\ wire = StrTok(<<10084>>) => Deref(de.value) = <<226, 157, 164>>
        /\ wire.shape = "bytes" =>
              /\ de.state = "ok"
              /\ Deref(de.value) = wire.items
        /\ wire.shape = "seq" =>
              IF \A i \in 1..Len(wire.items) : wire.items[i] \in 0..255
              THEN /\ de.state = "ok"
                   /\ Deref(de.value) = wire.items
                   /\ \A p \in Paths(BytesTok(wire.items)) :
                         BytesEq(de.value, Visit(p, BytesTok(wire.items)).value)
              ELSE de.state = "err"

\* A sequence of three integers, all bytes, was read.
C10_Witness ==
    /\ de.state = "ok"
    /\ wire = SeqTok(<<65, 255, 65>>)
    /\ Deref(de.value) = <<65, 255, 65>>

\* The same bytes in the other representation.
OtherRepresentation(b) ==
    IF b.kind = "Borrowed" THEN Owned(b.data) ELSE Borrowed(b.data)

\* C11: truncate(len) with len above the length has one outcome, whatever the
\* representation: a call that panicked on a value panics on the same bytes in
\* the other representation too, and a call that returned returns there too,
\* with both values holding the same, unchanged bytes.
C11_OutOfRangeTruncateAgrees ==
    (last.op = "truncate" /\ last.n > last.len0) =>
        LET v == Get(last.target)
            w == OtherRepresentation(v)
        IN  /\ Len(Deref(v)) = last.len0
            /\ panicked = truncate_panics(w, last.n)
            /\ ~panicked =>
                  /\ BytesEq(truncate(w, last.n), v)
                  /\ Len(Deref(truncate(w, last.n))) = last.len0

====
